---- MODULE Spec2Model ----
(***************************************************************************)
(* Verification model of convhull_3d.h: the 3-D and N-D quickhull builders *)
(* (convhull_3d_build, convhull_nd_build) and the Delaunay reduction       *)
(* (delaunay_nd_mesh).                                                     *)
(*                                                                         *)
(* Arithmetic.  The code works in CH_FLOAT (double).  The model works in   *)
(* exact integers.  The unit of length is the largest perturbation the     *)
(* code can add to a coordinate (CH_NOISE_VAL = 1e-7), so a perturbation   *)
(* is 0 or 1 unit (rand() returning 0 or RAND_MAX) and the span threshold  *)
(* 0.0000001f, which as a double is slightly above 1e-7, lies strictly     *)
(* between 1 and 2 units.                                                  *)
(*                                                                         *)
(* Plane equations.  plane_3d / plane_nd divide the cofactor vector c by   *)
(* norm_c = sqrt(sum c[i]^2) before computing the offset.  The model keeps *)
(* the pair (c, d) before that division: the stored pair of the code is    *)
(* (c, d) / norm_c, and every use the code makes of a plane is a           *)
(* comparison of dot(cf, x) + df with 0, whose outcome is the same for     *)
(* both pairs when norm_c > 0.  When norm_c = 0 the code computes 0/0, a   *)
(* NaN, in every coefficient and in the offset, and every comparison with  *)
(* a NaN is false: in the model that is the pair with c = 0 (IsNaN).       *)
(***************************************************************************)
EXTENDS Integers, Sequences, FiniteSets, TLC

\* ------------------------------------------------------------------------
\* Program constants (in model units)

\* #define CH_MAX_NUM_FACES 50000
CH_MAX_NUM_FACES == 50000

\* #define CH_NOISE_VAL 0.0000001 : one unit of length
CH_NOISE_VAL == 1

\* if (span[j] < 0.0000001f) : (double)0.0000001f = 1.0000000117e-7, so a
\* span of 1 unit is below the threshold and a span of 2 units is not
SpanThreshold == 2

\* ------------------------------------------------------------------------
\* Small helpers on sequences

Range(s) == {s[i] : i \in 1..Len(s)}

RECURSIVE SumSeq(_)
SumSeq(s) == IF s = <<>> THEN 0 ELSE s[1] + SumSeq(Tail(s))

RECURSIVE Flatten(_)
Flatten(ss) == IF ss = <<>> THEN <<>> ELSE ss[1] \o Flatten(Tail(ss))

Dot(a, b, n) == SumSeq([k \in 1..n |-> a[k] * b[k]])

Neg(v) == [k \in 1..Len(v) |-> 0 - v[k]]

MaxOf(S) == CHOOSE x \in S : \A y \in S : y <= x
MinOf(S) == CHOOSE x \in S : \A y \in S : x <= y

\* ------------------------------------------------------------------------
\* Geometric primitives.  Matrices are flat row-major arrays as in the code;
\* C index j is sequence position j + 1.

\* a closed form that keeps the term of the diagonal only
det_4x4_diagonal(m) == m[1] * m[6] * m[11] * m[16]

\* det_4x4 (closed form, 24 terms)
det_4x4(m) ==
    LET e(j) == m[j + 1] IN
      e(3) * e(6) * e(9) * e(12) - e(2) * e(7) * e(9) * e(12) - e(3) * e(5) * e(10) * e(12)
    + e(1) * e(7) * e(10) * e(12) + e(2) * e(5) * e(11) * e(12) - e(1) * e(6) * e(11) * e(12)
    - e(3) * e(6) * e(8) * e(13) + e(2) * e(7) * e(8) * e(13) + e(3) * e(4) * e(10) * e(13)
    - e(0) * e(7) * e(10) * e(13) - e(2) * e(4) * e(11) * e(13) + e(0) * e(6) * e(11) * e(13)
    + e(3) * e(5) * e(8) * e(14) - e(1) * e(7) * e(8) * e(14) - e(3) * e(4) * e(9) * e(14)
    + e(0) * e(7) * e(9) * e(14) + e(1) * e(4) * e(11) * e(14) - e(0) * e(5) * e(11) * e(14)
    - e(2) * e(5) * e(8) * e(15) + e(1) * e(6) * e(8) * e(15) + e(2) * e(4) * e(9) * e(15)
    - e(0) * e(6) * e(9) * e(15) - e(1) * e(4) * e(10) * e(15) + e(0) * e(5) * e(10) * e(15)

\* createSubMatrix: rows 1..N-1 of m without column i
createSubMatrix(m, N, i) ==
    [k \in 1..((N - 1) * (N - 1)) |->
        LET r == ((k - 1) \div (N - 1)) + 1
            c == (k - 1) % (N - 1)
            col == IF c < i THEN c ELSE c + 1
        IN  m[r * N + col + 1]]

\* det_NxN: cofactor expansion along the first row
RECURSIVE det_NxN(_, _)
det_NxN(m, d) ==
    IF d = 0 THEN 1
    ELSE SumSeq([i1 \in 1..d |->
            (IF (i1 - 1) % 2 = 0 THEN 1 ELSE 0 - 1) * m[i1]
                * det_NxN(createSubMatrix(m, d, i1 - 1), d - 1)])

\* The differences of consecutive points, pdiff[i][j], 0 <= i < Nd-1
pdiff(Nd, p, i, j) == p[(i + 1) * Nd + j + 1] - p[i * Nd + j + 1]

\* pdiff with column i deleted, flat (Nd-1) x (Nd-1)
pdiff_s(Nd, p, i) ==
    [k \in 1..((Nd - 1) * (Nd - 1)) |->
        LET j == (k - 1) \div (Nd - 1)
            l == (k - 1) % (Nd - 1)
            col == IF l < i THEN l ELSE l + 1
        IN  pdiff(Nd, p, j, col)]

\* plane_3d: p is the flat 3 x 3 array of the three points
plane_3d(p) ==
    LET c == [i1 \in 1..3 |->
                 LET s == pdiff_s(3, p, i1 - 1)
                     det == s[1] * s[4] - s[3] * s[2]
                 IN  (IF (i1 - 1) % 2 = 0 THEN 1 ELSE 0 - 1) * det]
    IN  [c |-> c, d |-> SumSeq([i1 \in 1..3 |-> (0 - p[i1]) * c[i1]])]

\* a plane routine that does not alternate the sign of the cofactors
plane_nd_unsigned(Nd, p) ==
    LET c == [i1 \in 1..Nd |->
                 LET s == pdiff_s(Nd, p, i1 - 1)
                 IN  IF Nd = 3 THEN s[1] * s[4] - s[3] * s[2]
                     ELSE IF Nd = 5 THEN det_4x4(s) ELSE det_NxN(s, Nd - 1)]
    IN  [c |-> c, d |-> SumSeq([i1 \in 1..Nd |-> (0 - p[i1]) * c[i1]])]

\* plane_nd: p is the flat Nd x Nd array of the Nd points
plane_nd(Nd, p) ==
    IF Nd = 3 THEN plane_3d(p)
    ELSE
      LET c == [i1 \in 1..Nd |->
                   LET s == pdiff_s(Nd, p, i1 - 1)
                       det == IF Nd = 5 THEN det_4x4(s) ELSE det_NxN(s, Nd - 1)
                   IN  (IF (i1 - 1) % 2 = 0 THEN 1 ELSE 0 - 1) * det]
      IN  [c |-> c, d |-> SumSeq([i1 \in 1..Nd |-> (0 - p[i1]) * c[i1]])]

\* norm_c = 0: every coefficient and the offset are NaN
IsNaN(c) == \A k \in 1..Len(c) : c[k] = 0

\* ------------------------------------------------------------------------
\* Bounds of the model

\* largest number of points of an input drawn from a pool
MaxN == 5

\* the initial states of the random source are 0..MaxSeed
MaxSeed == 2

\* ------------------------------------------------------------------------
\* Inputs.  Coordinates are in units of CH_NOISE_VAL.

\* The values of the CH_MAX_NUM_FACES macro the builders are compiled with:
\* the shipped one, and one that a hull of five points can exceed.
Ceilings == {5, CH_MAX_NUM_FACES}

\* 3-D input points: the tetrahedron O, X, Y, Z, and Q, which is in the
\* plane z = 0 of O, X, Y (a square with them)
Pool3 == { <<0, 0, 0>>, <<12, 0, 0>>, <<0, 12, 0>>, <<0, 0, 12>>, <<12, 12, 0>> }

\* the tetrahedron O, X, Y, Z followed by a point inside it
InteriorFive == << <<0, 0, 0>>, <<12, 0, 0>>, <<0, 12, 0>>, <<0, 0, 12>>, <<3, 3, 3>> >>

\* the tetrahedron O, X, Y, Z followed by a point of its face z = 0
OnFaceFive == << <<0, 0, 0>>, <<12, 0, 0>>, <<0, 12, 0>>, <<0, 0, 12>>, <<3, 3, 0>> >>

\* five points of which the first four are in the plane x = y
CoplanarFive == << <<0, 0, 0>>, <<0, 0, 12>>, <<12, 12, 0>>, <<3, 3, 3>>, <<12, 0, 0>> >>

\* six points of which the second, third and fourth are on one line
CollinearSix == << <<0, 8, 0>>, <<4, 8, 4>>, <<4, 4, 4>>, <<4, 0, 4>>,
                   <<4, 4, 0>>, <<8, 0, 8>> >>

\* the same six points followed by a seventh
CollinearSeven == Append(CollinearSix, <<4, 4, 8>>)

\* the 8 vertices of a cube, the first four on the face z = 0
CubeFaceFirst == << <<0, 0, 0>>, <<12, 0, 0>>, <<0, 12, 0>>, <<12, 12, 0>>,
                    <<0, 0, 12>>, <<12, 0, 12>>, <<0, 12, 12>>, <<12, 12, 12>> >>

\* the 8 vertices of the same cube, the first four not in one plane
CubeSpread == << <<0, 0, 0>>, <<12, 0, 0>>, <<0, 12, 0>>, <<0, 0, 12>>,
                 <<12, 12, 0>>, <<12, 0, 12>>, <<0, 12, 12>>, <<12, 12, 12>> >>

\* the tetrahedron O, X, Y, Z followed by three points outside it, no four
\* of the seven in one plane
GeneralSeven == << <<0, 0, 0>>, <<12, 0, 0>>, <<0, 12, 0>>, <<0, 0, 12>>,
                   <<10, 11, 9>>, <<-4, 5, -3>>, <<5, -4, 13>> >>

\* 2-D input points of the Delaunay mesher: three on the line y = 2, which
\* does not pass through the origin, one above it and one between
Pool2 == { <<2, 2>>, <<4, 2>>, <<6, 2>>, <<4, 6>>, <<3, 4>> }

\* the point arrays of n pairwise different points of pool S
InjSeqs(S, n) == {q \in [1..n -> S] : \A a, b \in 1..n : a # b => q[a] # q[b]}

HullInputs ==
    UNION {InjSeqs(Pool3, n) : n \in 2..MaxN}
    \cup {InteriorFive, OnFaceFive, CoplanarFive, CollinearSix, CubeFaceFirst, CubeSpread,
           GeneralSeven, CollinearSeven}

DelaunayInputs == UNION {InjSeqs(Pool2, n) : n \in 0..MaxN}

\* ------------------------------------------------------------------------
\* State

VARIABLES
    mode,         \* entry point: "3d" convhull_3d_build, "nd" convhull_nd_build,
                  \* "delaunay" delaunay_nd_mesh
    d,            \* number of dimensions of the hull build
    in_vertices,  \* the caller's point array (never written)
    nVert,        \* number of input points
    maxFaces,     \* value of the CH_MAX_NUM_FACES macro of this build
    NDEBUG,       \* TRUE when the build defines NDEBUG (a release build)
    seed,         \* state of the process-wide random source behind rand()
    points,       \* working points: perturbed coordinates and a trailing 1
    span,         \* per-axis span of the working points
    faces,        \* facet table: rows of d point indices (0-based)
    cf,           \* facet table: plane coefficients (before division by norm_c)
    df,           \* facet table: plane offsets (before division by norm_c)
    pleft,        \* candidate queue
    ERROR,        \* the facet-ceiling flag
    pc,           \* position of the call
    result,       \* how the call ended
    ub,           \* which out-of-bounds read, if any, the call has made
    out_faces,    \* the caller's *out_faces
    out_cf,       \* the caller's *out_cf
    out_df,       \* the caller's *out_df
    nOut_faces,   \* the caller's *nOut_faces
    del_points,   \* delaunay_nd_mesh: the caller's point array (never written)
    Mesh,         \* delaunay_nd_mesh: the caller's *Mesh
    nMesh,        \* delaunay_nd_mesh: the caller's *nMesh
    call,         \* 1 in the first call of a builder, 2 in the call that follows it
    H,            \* second call: what the first call has returned
    V,            \* second call: the point indices the first call's rows reference
    drawn,        \* the values the noise loop has drawn, when followed draw by draw
    other,        \* a call of a builder in another thread: its array, the values
                  \* its noise loop has drawn, the random state both calls started from
    detOfA        \* the determinant of A, when the orientation test is run on its own

hullVars == <<faces, cf, df>>

outVars == <<out_faces, out_cf, out_df, nOut_faces>>

delVars == <<del_points, Mesh, nMesh>>

\* the arguments passed by value and the history of the calls
callVars == <<mode, d, nVert, maxFaces, NDEBUG, call, H, V, drawn, other, detOfA>>

\* what a builder call never changes
argVars == <<mode, d, in_vertices, nVert, maxFaces, NDEBUG, call, H, V, drawn, other, detOfA>>

vars == <<mode, d, in_vertices, nVert, maxFaces, NDEBUG, seed, points, span, faces, cf, df,
          pleft, ERROR, pc, result, ub, out_faces, out_cf, out_df, nOut_faces,
          del_points, Mesh, nMesh, call, H, V, drawn, other, detOfA>>

\* An output pointer argument: what the caller's variable holds.  The caller
\* sets the variable to UNSET and the count to UNSET_COUNT before the call, so
\* that a write by the call shows.
UNSET == [ptr |-> "unset", rows |-> <<>>]

\* the null pointer
NULL == [ptr |-> "NULL", rows |-> <<>>]

\* a pointer to a fresh array holding the rows r
Array(r) == [ptr |-> "array", rows |-> r]

UNSET_COUNT == 0 - 1

nFaces == Len(faces)

\* ------------------------------------------------------------------------
\* The random source.  rand() is a multiplicative congruential generator
\* (state 0 is a fixed point); rand() / RAND_MAX is 0 or 1.

rand_next(s) == (3 * s) % 7

rand_value(s) == rand_next(s) % 2

\* state of the source after k calls of rand()
RECURSIVE rand_after(_, _)
rand_after(s, k) == IF k = 0 THEN s ELSE rand_after(rand_next(s), k - 1)

\* CH_NOISE_VAL * rand() / RAND_MAX of the (k+1)-th call from state s
noise(s, k) == CH_NOISE_VAL * rand_value(rand_after(s, k))

\* "Add noise to the points": row i (0-based) of the working points
perturb(in, n, dim, s) ==
    [i1 \in 1..n |->
        [j1 \in 1..(dim + 1) |->
            IF j1 <= dim THEN in[i1][j1] + noise(s, (i1 - 1) * dim + (j1 - 1))
            ELSE 1]]

\* a noise loop that stores the perturbed coordinates in the array it reads
inputAfterNoise_inplace(in, pts) == [i1 \in 1..Len(in) |-> SubSeq(pts[i1], 1, Len(in[i1]))]

\* the caller's array after the noise loop: the loop reads in and stores into
\* the working array pts, which it has allocated
inputAfterNoise(in, pts) == in

\* a span loop that reads axis 0 for every axis
spanOf_axis0(pts, n, dim) ==
    [j1 \in 1..dim |-> MaxOf({pts[i1][1] : i1 \in 1..n}) - MinOf({pts[i1][1] : i1 \in 1..n})]

\* "Find the span"
spanOf(pts, n, dim) ==
    [j1 \in 1..dim |-> MaxOf({pts[i1][j1] : i1 \in 1..n}) - MinOf({pts[i1][j1] : i1 \in 1..n})]

\* ------------------------------------------------------------------------
\* Facets

\* the d working points of facet row f and the witness row w, as the flat
\* (d+1) x (d+1) array A
matrixA(pts, f, w) == Flatten([k \in 1..Len(f) |-> pts[f[k] + 1]]) \o pts[w + 1]

\* det(A): det_4x4 in the 3-D builder, and in the N-D builder when d == 3
signedVolume(md, dim, pts, f, w) ==
    IF md = "3d" \/ dim = 3 THEN det_4x4(matrixA(pts, f, w))
    ELSE det_NxN(matrixA(pts, f, w), dim + 1)

\* p_s: the coordinates of the d points of facet row f, flat d x d
p_s(pts, dim, f) == Flatten([k \in 1..dim |-> SubSeq(pts[f[k] + 1], 1, dim)])

\* plane_3d in the 3-D builder, plane_nd in the N-D builder
planeOf(md, dim, pts, f) ==
    IF md = "3d" THEN plane_3d(p_s(pts, dim, f)) ELSE plane_nd(dim, p_s(pts, dim, f))

\* a swap of the last two vertices that overwrites the last before reading it
flipFace_overwrite(f) == [k \in 1..Len(f) |-> IF k = Len(f) THEN f[Len(f) - 1] ELSE f[k]]

\* "Reverse the order of the last two vertices"
flipFace(f) ==
    [k \in 1..Len(f) |-> IF k = Len(f) THEN f[Len(f) - 1]
                         ELSE IF k = Len(f) - 1 THEN f[Len(f)] ELSE f[k]]

\* a test that also holds for a point in the plane
isVisible_weak(c, dd, pt, dim) == ~IsNaN(c) /\ Dot(c, pt, dim) + dd >= 0

\* points_cf[j] + df[j] > 0.0 for working point i (0-based); false for a NaN plane
isVisible(c, dd, pt, dim) == ~IsNaN(c) /\ Dot(c, pt, dim) + dd > 0

\* ------------------------------------------------------------------------
\* INIT: argument check, perturbation, span check

\* if (nVert < 3 ...) in the 3-D builder, if (nVert <= d ...) in the N-D builder
tooFewPoints(md, n, dim) == IF md = "3d" THEN n < 3 ELSE n <= dim

\* "Solution not possible...": the failure result
rejected ==
    /\ out_faces' = NULL
    /\ nOut_faces' = 0
    /\ out_cf' = IF mode = "3d" THEN out_cf ELSE NULL
    /\ out_df' = IF mode = "3d" THEN out_df ELSE NULL
    /\ pc' = "FAILED"
    /\ result' = "null"
    /\ UNCHANGED <<in_vertices, points, span>>

\* the working points pts are stored and "Find the span" runs on them
spanChecked(pts) ==
    LET sp == spanOf(pts, nVert, d)
    IN  /\ points' = pts
        /\ in_vertices' = inputAfterNoise(in_vertices, pts)
        /\ span' = sp
        /\ IF \E j \in 1..d : sp[j] < SpanThreshold
           THEN pc' = "FAILED" /\ result' = "throw_span"
           ELSE pc' = "VALIDATED" /\ result' = result
        /\ UNCHANGED outVars

Validate ==
    /\ pc = "INIT"
    /\ drawn = <<>>
    /\ IF tooFewPoints(mode, nVert, d)
       THEN rejected /\ UNCHANGED seed
       ELSE /\ spanChecked(perturb(in_vertices, nVert, d, seed))
            /\ seed' = rand_after(seed, nVert * d)
    /\ UNCHANGED <<callVars, hullVars, pleft, ERROR, ub, delVars>>

\* ------------------------------------------------------------------------
\* SIMPLEX_BUILT: the initial simplex, its orientation, the candidate queue

\* a simplex whose every facet row is the points 0..d-1
simplexFace_first(dim, i) == [k \in 1..dim |-> k - 1]

\* facet row i of the simplex: the points 0..d except i
simplexFace(dim, i) == [k \in 1..dim |-> IF k - 1 < i THEN k - 1 ELSE k]

\* the simplex facet after "Orient so that each point on the original simplex
\* can't see the opposite face": flipped when v < 0
orientedSimplex(md, dim, pts, k) ==
    LET f == simplexFace(dim, k)
        pl == planeOf(md, dim, pts, f)
        v == signedVolume(md, dim, pts, f, k)
    IN  IF v < 0 THEN [f |-> flipFace(f), c |-> Neg(pl.c), d |-> 0 - pl.d]
        ELSE [f |-> f, c |-> pl.c, d |-> pl.d]

\* product of the squared spans of all axes but j
RECURSIVE spanProd(_, _, _)
spanProd(sp, j, k) ==
    IF k = 0 THEN 1 ELSE (IF k = j THEN 1 ELSE sp[k] * sp[k]) * spanProd(sp, j, k - 1)

\* reldist of point i (0-based, i > d), times the positive factor
\* ((nVert - d - 1) * span[0] * ... * span[d-1])^2 common to all points
reldist(pts, sp, n, dim, i) ==
    LET m == n - dim - 1
        S(j) == SumSeq([q \in 1..m |-> pts[dim + 1 + q][j]])
    IN  SumSeq([j \in 1..dim |->
            (m * pts[i + 1][j] - S(j)) * (m * pts[i + 1][j] - S(j)) * spanProd(sp, j, dim)])

\* sort_float(reldist, ..., descending) then pleft[i] = ind[i] + d + 1: the
\* orders qsort may return (elements that compare equal come in any order)
queueOrders(pts, sp, n, dim) ==
    LET m == n - dim - 1
    IN  IF m <= 0 THEN {<<>>}
        ELSE {q \in InjSeqs((dim + 1)..(n - 1), m) :
                \A k \in 1..(m - 1) :
                    reldist(pts, sp, n, dim, q[k]) >= reldist(pts, sp, n, dim, q[k + 1])}

BuildSimplex ==
    /\ pc = "VALIDATED"
    /\ IF nVert < d + 1
       THEN \* points[3] is read beyond the working array and the queue is
            \* sized and sorted with length nVert - d - 1 = -1
            /\ pc' = "UNDEFINED"
            /\ result' = "crash"
            /\ ub' = "simplex"
            /\ UNCHANGED <<hullVars, pleft>>
       ELSE /\ LET sx == [k1 \in 1..(d + 1) |-> orientedSimplex(mode, d, points, k1 - 1)]
               IN  /\ faces' = [k1 \in 1..(d + 1) |-> sx[k1].f]
                   /\ cf' = [k1 \in 1..(d + 1) |-> sx[k1].c]
                   /\ df' = [k1 \in 1..(d + 1) |-> sx[k1].d]
            /\ pleft' \in queueOrders(points, span, nVert, d)
            /\ pc' = "SIMPLEX_BUILT"
            /\ UNCHANGED <<result, ub>>
    /\ UNCHANGED <<argVars, seed, points, span, ERROR, outVars, delVars>>

\* ------------------------------------------------------------------------
\* ITERATING: one iteration of "The main loop for the quickhull algorithm"

\* visible_ind[j] for the popped point i
visible_ind(i) == [j \in 1..nFaces |-> isVisible(cf[j], df[j], points[i + 1], d)]

\* the positions of a sequence of booleans that hold the value b, ascending
RECURSIVE positions(_, _, _)
positions(flags, b, j) ==
    IF j > Len(flags) THEN <<>>
    ELSE (IF flags[j] = b THEN <<j>> ELSE <<>>) \o positions(flags, b, j + 1)

\* ismember(g, face_s, f0, ...): f0[l] = 1 iff g[l] occurs in the visible face
f0(g, face_s) == [l \in 1..Len(g) |-> IF g[l] \in Range(face_s) THEN 1 ELSE 0]

\* the vertices of the nonvisible face g that f0 marks, in the order of g
RECURSIVE ridge(_, _, _)
ridge(g, marks, l) ==
    IF l > Len(g) THEN <<>>
    ELSE (IF marks[l] = 1 THEN <<g[l]>> ELSE <<>>) \o ridge(g, marks, l + 1)

\* a horizon loop that leaves out the last nonvisible face
RECURSIVE horizonOf_short(_, _, _, _)
horizonOf_short(vis, nonvis, j, k) ==
    IF j > Len(vis) THEN <<>>
    ELSE IF k > Len(nonvis) - 1 THEN horizonOf_short(vis, nonvis, j + 1, 1)
    ELSE LET marks == f0(faces[nonvis[k]], faces[vis[j]])
         IN  (IF SumSeq(marks) = d - 1 THEN <<ridge(faces[nonvis[k]], marks, 1)>> ELSE <<>>)
                \o horizonOf_short(vis, nonvis, j, k + 1)

\* "Create horizon": for each visible face in turn, one entry for every
\* nonvisible face k with f0_sum == d - 1
RECURSIVE horizonOf(_, _, _, _)
horizonOf(vis, nonvis, j, k) ==
    IF j > Len(vis) THEN <<>>
    ELSE IF k > Len(nonvis) THEN horizonOf(vis, nonvis, j + 1, 1)
    ELSE LET marks == f0(faces[nonvis[k]], faces[vis[j]])
         IN  (IF SumSeq(marks) = d - 1 THEN <<ridge(faces[nonvis[k]], marks, 1)>> ELSE <<>>)
                \o horizonOf(vis, nonvis, j, k + 1)

\* pp: the values of hVec = 0..nF-1 that are not vertices of the face
ppOf(f, nF) == SelectSeq([x \in 1..nF |-> x - 1], LAMBDA x : x \notin Range(f))

\* "While new point is coplanar, choose another point": the first index at
\* which the determinant is not zero, or the first out-of-bounds read
RECURSIVE retryLoop(_, _, _)
retryLoop(f, pp, index) ==
    IF index >= Len(pp) THEN [oob |-> "retry_pp", detA |-> 0, index |-> index + 1]
    ELSE IF pp[index + 1] >= nVert
         THEN [oob |-> "retry_points", detA |-> 0, index |-> index + 1]
    ELSE LET detA == signedVolume(mode, d, points, f, pp[index + 1])
         IN  IF detA = 0 THEN retryLoop(f, pp, index + 1)
             ELSE [oob |-> "none", detA |-> detA, index |-> index + 1]

\* After a flip, A is filled again from pp[index], with index already
\* incremented past the witness that was tested; the determinant of A is
\* computed and tested only #ifndef NDEBUG.
recheck(f, pp, index) ==
    IF index >= Len(pp) THEN "recheck_pp"
    ELSE IF pp[index + 1] >= nVert THEN "recheck_points"
    ELSE IF ~NDEBUG /\ signedVolume(mode, d, points, flipFace(f), pp[index + 1]) <= 0
         THEN "throw"
    ELSE "ok"

\* "Orient each new face properly", one face: the outcomes the build can
\* produce.  A read beyond pp or beyond the working points yields an
\* arbitrary determinant (either sign), or the call crashes or never leaves
\* the loop ("undefined"); the throw exists only in a build without NDEBUG.
orientFace(f, nF) ==
    LET pp == ppOf(f, nF)
        r == retryLoop(f, pp, 0)
    IN  IF r.oob # "none"
        THEN { [flip |-> FALSE, st |-> "ok", ub |-> r.oob],
               [flip |-> TRUE, st |-> "ok", ub |-> r.oob],
               [flip |-> FALSE, st |-> "undefined", ub |-> r.oob] }
             \cup (IF NDEBUG THEN {}
                   ELSE { [flip |-> TRUE, st |-> "throw", ub |-> r.oob] })
        ELSE IF r.detA > 0 THEN { [flip |-> FALSE, st |-> "ok", ub |-> "none"] }
        ELSE LET c == recheck(f, pp, r.index)
             IN  IF c = "ok" THEN { [flip |-> TRUE, st |-> "ok", ub |-> "none"] }
                 ELSE IF c = "throw" THEN { [flip |-> TRUE, st |-> "throw", ub |-> "none"] }
                 ELSE { [flip |-> TRUE, st |-> "ok", ub |-> c],
                        [flip |-> TRUE, st |-> "undefined", ub |-> c] }
                      \cup (IF NDEBUG THEN {}
                            ELSE { [flip |-> TRUE, st |-> "throw", ub |-> c] })

\* the faces k..nF in turn; a throw or a crash ends the call at that face
RECURSIVE orientNew(_, _, _, _, _)
orientNew(k, F, C, D, u) ==
    IF k > Len(F) THEN { [faces |-> F, cf |-> C, df |-> D, st |-> "ok", ub |-> u] }
    ELSE UNION { LET u2 == IF o.ub = "none" THEN u ELSE o.ub
                     F2 == IF o.flip THEN [F EXCEPT ![k] = flipFace(F[k])] ELSE F
                     C2 == IF o.flip THEN [C EXCEPT ![k] = Neg(C[k])] ELSE C
                     D2 == IF o.flip THEN [D EXCEPT ![k] = 0 - D[k]] ELSE D
                 IN  IF o.st = "ok" THEN orientNew(k + 1, F2, C2, D2, u2)
                     ELSE { [faces |-> F2, cf |-> C2, df |-> D2, st |-> o.st, ub |-> u2] }
               : o \in orientFace(F[k], Len(F)) }

\* an update that puts the new faces in front of the faces it keeps
keptAndNew_front(i, vflags) ==
    LET vis == positions(vflags, TRUE, 1)
        nonvis == positions(vflags, FALSE, 1)
        horizon == horizonOf(vis, nonvis, 1, 1)
        newF == [j \in 1..Len(horizon) |-> horizon[j] \o <<i>>]
        newP == [j \in 1..Len(horizon) |-> planeOf(mode, d, points, newF[j])]
    IN  [ faces |-> newF \o [k \in 1..Len(nonvis) |-> faces[nonvis[k]]],
          cf |-> [j \in 1..Len(horizon) |-> newP[j].c]
                    \o [k \in 1..Len(nonvis) |-> cf[nonvis[k]]],
          df |-> [j \in 1..Len(horizon) |-> newP[j].d]
                    \o [k \in 1..Len(nonvis) |-> df[nonvis[k]]],
          start |-> Len(nonvis) ]

\* the facet table after "Delete visible faces" and "Add faces connecting
\* horizon to the new point", before the orientation of the new faces
keptAndNew(i, vflags) ==
    LET vis == positions(vflags, TRUE, 1)
        nonvis == positions(vflags, FALSE, 1)
        horizon == horizonOf(vis, nonvis, 1, 1)
        newF == [j \in 1..Len(horizon) |-> horizon[j] \o <<i>>]
        newP == [j \in 1..Len(horizon) |-> planeOf(mode, d, points, newF[j])]
    IN  [ faces |-> [k \in 1..Len(nonvis) |-> faces[nonvis[k]]] \o newF,
          cf |-> [k \in 1..Len(nonvis) |-> cf[nonvis[k]]]
                    \o [j \in 1..Len(horizon) |-> newP[j].c],
          df |-> [k \in 1..Len(nonvis) |-> df[nonvis[k]]]
                    \o [j \in 1..Len(horizon) |-> newP[j].d],
          start |-> Len(nonvis) ]

\* a ceiling test that lets one face more pass
ceilingExceeded_late(n, ceiling) == n > ceiling + 1

\* if (nFaces > CH_MAX_NUM_FACES), tested after each face that is added
ceilingExceeded(n, ceiling) == n > ceiling

InsertPoint ==
    /\ pc \in {"SIMPLEX_BUILT", "ITERATING"}
    /\ ERROR = 0
    /\ pleft # <<>>
    /\ pleft' = Tail(pleft)
    /\ LET i == pleft[1]
           vflags == visible_ind(i)
       IN  IF \A j \in 1..nFaces : ~vflags[j]
           THEN /\ pc' = "ITERATING"
                /\ UNCHANGED <<hullVars, ERROR, result, ub>>
           ELSE LET t == keptAndNew(i, vflags)
                IN  IF ceilingExceeded(Len(t.faces), maxFaces)
                    THEN \* nFaces > CH_MAX_NUM_FACES: ERROR = 1; nFaces = 0; break
                         /\ ERROR' = 1
                         /\ faces' = <<>>
                         /\ cf' = <<>>
                         /\ df' = <<>>
                         /\ pc' = "ITERATING"
                         /\ UNCHANGED <<result, ub>>
                    ELSE \E r \in orientNew(t.start + 1, t.faces, t.cf, t.df, ub) :
                         /\ faces' = r.faces
                         /\ cf' = r.cf
                         /\ df' = r.df
                         /\ ub' = r.ub
                         /\ pc' = IF r.st = "ok" THEN "ITERATING"
                                  ELSE IF r.st = "throw" THEN "FAILED" ELSE "UNDEFINED"
                         /\ result' = IF r.st = "ok" THEN result
                                      ELSE IF r.st = "throw" THEN "throw_orient" ELSE "crash"
                         /\ UNCHANGED ERROR
    /\ UNCHANGED <<argVars, seed, points, span, outVars, delVars>>

\* ------------------------------------------------------------------------
\* DONE | FAILED: the "output" block after the loop

Output ==
    /\ pc \in {"SIMPLEX_BUILT", "ITERATING"}
    /\ pleft = <<>> \/ ERROR = 1
    /\ IF ERROR = 1
       THEN /\ out_faces' = NULL
            /\ out_cf' = IF mode = "3d" THEN out_cf ELSE NULL
            /\ out_df' = IF mode = "3d" THEN out_df ELSE NULL
            /\ nOut_faces' = 0
            /\ pc' = "FAILED"
            /\ result' = "null"
       ELSE /\ out_faces' = Array(faces)
            /\ out_cf' = IF mode = "3d" THEN out_cf ELSE Array(cf)
            /\ out_df' = IF mode = "3d" THEN out_df ELSE Array(df)
            /\ nOut_faces' = nFaces
            /\ pc' = "DONE"
            /\ result' = "ok"
    /\ UNCHANGED <<argVars, seed, points, span, hullVars, pleft, ERROR, ub, delVars>>

\* ------------------------------------------------------------------------
\* A second call of the same builder on the points that the facets returned
\* by the first call reference

\* the point indices that the facet rows F reference, ascending
verticesOf(F, n) ==
    SelectSeq([x \in 1..n |-> x - 1], LAMBDA x : \E k \in 1..Len(F) : x \in Range(F[k]))

Rebuild ==
    /\ mode \in {"3d", "nd"}
    /\ call = 1
    /\ pc = "DONE"
    /\ LET vs == verticesOf(out_faces.rows, nVert)
       IN  /\ V' = vs
           /\ in_vertices' = [k \in 1..Len(vs) |-> in_vertices[vs[k] + 1]]
           /\ nVert' = Len(vs)
    /\ H' = out_faces.rows
    /\ call' = 2
    /\ points' = <<>>
    /\ span' = <<>>
    /\ faces' = <<>>
    /\ cf' = <<>>
    /\ df' = <<>>
    /\ pleft' = <<>>
    /\ ERROR' = 0
    /\ pc' = "INIT"
    /\ result' = "none"
    /\ ub' = "none"
    /\ out_faces' = UNSET
    /\ out_cf' = UNSET
    /\ out_df' = UNSET
    /\ nOut_faces' = UNSET_COUNT
    /\ UNCHANGED <<mode, d, maxFaces, NDEBUG, seed, delVars, drawn, other, detOfA>>

\* ------------------------------------------------------------------------
\* A second call of the same builder on the same array.  Neither builder
\* calls srand(): the second call draws from the random source where the
\* first call has left it.

Repeat ==
    /\ mode \in {"3d", "nd"}
    /\ call = 1
    /\ pc \in {"DONE", "FAILED"}
    /\ H' = [points |-> points, pc |-> pc, result |-> result, out_faces |-> out_faces]
    /\ call' = 2
    /\ points' = <<>>
    /\ span' = <<>>
    /\ faces' = <<>>
    /\ cf' = <<>>
    /\ df' = <<>>
    /\ pleft' = <<>>
    /\ ERROR' = 0
    /\ pc' = "INIT"
    /\ result' = "none"
    /\ ub' = "none"
    /\ out_faces' = UNSET
    /\ out_cf' = UNSET
    /\ out_df' = UNSET
    /\ nOut_faces' = UNSET_COUNT
    /\ UNCHANGED <<mode, d, in_vertices, nVert, maxFaces, NDEBUG, V, seed, delVars,
                   drawn, other, detOfA>>

\* ------------------------------------------------------------------------
\* The main loop run again on the same working points and the same initial
\* simplex, with the candidate queue in any order

\* the call has built the simplex from the working points and has ended
pastSimplex == pc \in {"DONE", "FAILED", "UNDEFINED"} /\ nVert >= d + 1
                   /\ points # <<>> /\ result # "throw_span"

Reorder ==
    /\ mode \in {"3d", "nd"}
    /\ call = 1
    /\ pastSimplex
    /\ H' = [pc |-> pc, result |-> result, ub |-> ub, faces |-> faces, cf |-> cf, df |-> df]
    /\ call' = 2
    /\ LET sx == [k1 \in 1..(d + 1) |-> orientedSimplex(mode, d, points, k1 - 1)]
       IN  /\ faces' = [k1 \in 1..(d + 1) |-> sx[k1].f]
           /\ cf' = [k1 \in 1..(d + 1) |-> sx[k1].c]
           /\ df' = [k1 \in 1..(d + 1) |-> sx[k1].d]
    /\ pleft' \in InjSeqs((d + 1)..(nVert - 1), nVert - d - 1)
    /\ ERROR' = 0
    /\ pc' = "SIMPLEX_BUILT"
    /\ result' = "none"
    /\ ub' = "none"
    /\ out_faces' = UNSET
    /\ out_cf' = UNSET
    /\ out_df' = UNSET
    /\ nOut_faces' = UNSET_COUNT
    /\ UNCHANGED <<mode, d, in_vertices, nVert, maxFaces, NDEBUG, V, seed, points, span,
                   delVars, drawn, other, detOfA>>

\* ------------------------------------------------------------------------
\* Two calls of a builder in two threads.  Each call draws its perturbation
\* with rand(), one value per coordinate; a draw is the step of a thread, and
\* the draws of the two noise loops interleave.  What the other call does
\* after its noise loop touches only its own memory and is left out.

\* the working points for the noise values nz, in the order of the draws
addNoise(in, n, dim, nz) ==
    [i1 \in 1..n |->
        [j1 \in 1..(dim + 1) |->
            IF j1 <= dim THEN in[i1][j1] + nz[(i1 - 1) * dim + j1] ELSE 1]]

\* one pass of the noise loop body of this call
Draw ==
    /\ mode \in {"3d", "nd"}
    /\ pc = "INIT"
    /\ ~tooFewPoints(mode, nVert, d)
    /\ Len(drawn) < nVert * d
    /\ drawn' = Append(drawn, CH_NOISE_VAL * rand_value(seed))
    /\ seed' = rand_next(seed)
    /\ UNCHANGED <<mode, d, in_vertices, nVert, maxFaces, NDEBUG, call, H, V, other, detOfA,
                   points, span, hullVars, pleft, ERROR, pc, result, ub, outVars, delVars>>

\* one pass of the noise loop body of the call in the other thread
DrawOther ==
    /\ Len(other.drawn) < Len(other.in) * other.d
    /\ other' = [other EXCEPT !.drawn = Append(@, CH_NOISE_VAL * rand_value(seed))]
    /\ seed' = rand_next(seed)
    /\ UNCHANGED <<mode, d, in_vertices, nVert, maxFaces, NDEBUG, call, H, V, drawn, detOfA,
                   points, span, hullVars, pleft, ERROR, pc, result, ub, outVars, delVars>>

\* the argument check, or the span check once the noise loop has ended
ValidateDrawn ==
    /\ pc = "INIT"
    /\ IF tooFewPoints(mode, nVert, d)
       THEN rejected
       ELSE /\ Len(drawn) = nVert * d
            /\ spanChecked(addNoise(in_vertices, nVert, d, drawn))
    /\ UNCHANGED <<callVars, seed, hullVars, pleft, ERROR, ub, delVars>>

\* ------------------------------------------------------------------------
\* delaunay_nd_mesh

\* "Project the N-dimensional points onto a N+1-dimensional paraboloid"
projpoints(in, n, nd, s) ==
    [i1 \in 1..n |->
        LET c == [j1 \in 1..nd |-> in[i1][j1] + noise(s, (i1 - 1) * nd + (j1 - 1))]
        IN  c \o <<SumSeq([j1 \in 1..nd |-> c[j1] * c[j1]])>>]

Lift ==
    /\ mode = "delaunay"
    /\ pc = "LIFT"
    /\ in_vertices' = projpoints(del_points, nVert, d - 1, seed)
    /\ del_points' = inputAfterNoise(del_points, in_vertices')
    /\ seed' = rand_after(seed, nVert * (d - 1))
    /\ pc' = "INIT"
    /\ UNCHANGED <<callVars, points, span, hullVars, pleft, ERROR, result, ub, outVars,
                   Mesh, nMesh>>

\* the first point (0-based) whose w is greater than the w of all before it
\* and not less than any
maxW_idx(proj, n, nd) ==
    CHOOSE i \in 0..(n - 1) :
        /\ \A k \in 0..(n - 1) : proj[k + 1][nd + 1] <= proj[i + 1][nd + 1]
        /\ \A k \in 0..(i - 1) : proj[k + 1][nd + 1] < proj[i + 1][nd + 1]

fabs(x) == IF x < 0 THEN 0 - x ELSE x

\* w0 - sum of 2.0 * pow(p0[j], 2.0)
w_optimal(proj, n, nd) ==
    LET p0 == proj[maxW_idx(proj, n, nd) + 1]
    IN  p0[nd + 1] - SumSeq([j \in 1..nd |-> 2 * p0[j] * p0[j]])

w_optimal2(proj, n, nd) ==
    w_optimal(proj, n, nd) - 1000 * fabs(w_optimal(proj, n, nd))

\* the viewpoint p: zero but for p[nd] = w_optimal2
viewpoint(proj, n, nd) ==
    [j \in 1..(nd + 1) |-> IF j = nd + 1 THEN w_optimal2(proj, n, nd) ELSE 0]

\* visible[i] > 0.0 : cf[i] . p + df[i] > 0, false for a NaN plane
visibleFrom(c, dd, p, nd) == ~IsNaN(c) /\ Dot(c, p, nd + 1) + dd > 0

\* the part of delaunay_nd_mesh after convhull_nd_build has returned: the
\* lower hull is selected and copied
meshOf ==
    LET p == viewpoint(in_vertices, nVert, d - 1)
        vis == [k \in 1..nOut_faces |->
                   visibleFrom(out_cf.rows[k], out_df.rows[k], p, d - 1)]
        sel == positions(vis, TRUE, 1)
    IN  /\ nMesh' = Len(sel)
        /\ Mesh' = IF Len(sel) > 0
                   THEN Array([k \in 1..Len(sel) |-> out_faces.rows[sel[k]]])
                   ELSE Mesh

\* the part of delaunay_nd_mesh after convhull_nd_build has returned; when the
\* builder throws, delaunay_nd_mesh is left by the exception.  With no point
\* at all the search for the maximum w leaves maxW_idx = -1: the assert ends
\* the process in a build without NDEBUG, and with NDEBUG w0 and p0 are read
\* at projpoints[-1], before an array of 0 bytes
BuildMesh ==
    /\ mode = "delaunay"
    /\ pc = "DONE" \/ (pc = "FAILED" /\ result = "null")
    /\ IF nVert > 0
       THEN /\ meshOf
            /\ pc' = "MESH_DONE"
            /\ UNCHANGED <<result, ub>>
       ELSE IF ~NDEBUG
       THEN /\ pc' = "ABORTED"
            /\ result' = "abort"
            /\ UNCHANGED <<ub, Mesh, nMesh>>
       ELSE /\ ub' = "projpoints"
            /\ \/ meshOf /\ pc' = "MESH_DONE" /\ UNCHANGED result
               \/ pc' = "UNDEFINED" /\ result' = "crash" /\ UNCHANGED <<Mesh, nMesh>>
    /\ UNCHANGED <<argVars, seed, points, span, hullVars, pleft, ERROR,
                   outVars, del_points>>

\* ------------------------------------------------------------------------
\* The geometric primitives run on their own: the plane through the first d
\* of d+1 points (plane_3d / plane_nd), then the determinant of A for those d
\* points and the last one, as in "Orient each new face properly"

\* points of dimension 3, 4 and 5; in dimension 3 and 4 the first three of
\* the pool are on a line
PrimPool3 == { <<0, 0, 0>>,
      <<1, 1, 1>>,
      <<2, 2, 2>>,
      <<2, -2, 0>>,
      <<2, -2, 2>>,
      <<3, -2, -2>> }

PrimPool4 == { <<0, 0, 0, 0>>,
      <<1, 0, 2, 1>>,
      <<2, 0, 4, 2>>,
      <<0, 1, -1, 2>>,
      <<2, 2, 1, -2>>,
      <<3, 3, 2, -2>> }

PrimPool5 == { <<0, 0, 0, 0, 0>>,
      <<1, 2, 0, 1, 1>>,
      <<2, 4, 0, 2, 3>>,
      <<-1, 2, 2, -1, 0>>,
      <<2, 1, 3, 2, -2>>,
      <<2, -2, 1, 0, 2>> }

\* d+1 different points of dimension dim
PrimInputs(dim) ==
    InjSeqs(IF dim = 3 THEN PrimPool3 ELSE IF dim = 4 THEN PrimPool4 ELSE PrimPool5, dim + 1)

\* p_s is filled from the points of the face and the plane routine is called
PlaneThrough ==
    /\ pc = "CALL"
    /\ points' = [i \in 1..nVert |-> in_vertices[i] \o <<1>>]
    /\ faces' = << [k \in 1..d |-> k - 1] >>
    /\ LET pl == planeOf(mode, d, points', faces'[1])
       IN  cf' = <<pl.c>> /\ df' = <<pl.d>>
    /\ pc' = "PLANE"
    /\ UNCHANGED <<argVars, seed, span, pleft, ERROR, result, ub, outVars, delVars>>

\* A is filled from the face and the witness, and detA = det(A)
Orientation ==
    /\ pc = "PLANE"
    /\ detOfA' = signedVolume(mode, d, points, faces[1], d)
    /\ pc' = "ORIENTED"
    /\ UNCHANGED <<mode, d, in_vertices, nVert, maxFaces, NDEBUG, call, H, V, drawn, other,
                   seed, points, span, hullVars, pleft, ERROR, result, ub, outVars, delVars>>

\* ------------------------------------------------------------------------
\* Initial states and specifications

\* no call in another thread
NoOther == [in |-> <<>>, d |-> 0, drawn |-> <<>>, start |-> 0]

\* what is common to the initial states of all entry points
InitCall ==
    /\ maxFaces \in Ceilings
    /\ NDEBUG \in BOOLEAN
    /\ points = <<>>
    /\ span = <<>>
    /\ faces = <<>>
    /\ cf = <<>>
    /\ df = <<>>
    /\ pleft = <<>>
    /\ ERROR = 0
    /\ result = "none"
    /\ ub = "none"
    /\ out_faces = UNSET
    /\ out_cf = UNSET
    /\ out_df = UNSET
    /\ nOut_faces = UNSET_COUNT
    /\ Mesh = UNSET
    /\ nMesh = UNSET_COUNT
    /\ call = 1
    /\ H = <<>>
    /\ V = <<>>
    /\ drawn = <<>>
    /\ detOfA = 0

\* a call of convhull_3d_build or of convhull_nd_build with d = 3
InitHull ==
    /\ mode \in {"3d", "nd"}
    /\ d = 3
    /\ in_vertices \in HullInputs
    /\ nVert = Len(in_vertices)
    /\ seed \in 0..MaxSeed
    /\ other = NoOther
    /\ del_points = <<>>
    /\ pc = "INIT"
    /\ InitCall

\* a call of delaunay_nd_mesh with nd = 2.  The lifted coordinate w is the
\* square of a length, so a perturbation of w by CH_NOISE_VAL and one of x
\* by CH_NOISE_VAL are whole numbers of no common unit: the mesher is
\* modelled for the random source in state 0 only, where each perturbation is
\* 0, as it is for coordinates so large that the sum rounds to the coordinate.
InitDelaunay ==
    /\ mode = "delaunay"
    /\ d = 3
    /\ del_points \in DelaunayInputs
    /\ nVert = Len(del_points)
    /\ seed = 0
    /\ other = NoOther
    /\ in_vertices = <<>>
    /\ pc = "LIFT"
    /\ InitCall

Next == Validate \/ BuildSimplex \/ InsertPoint \/ Output

Spec == InitHull /\ [][Next]_vars

NextRebuild == Validate \/ BuildSimplex \/ InsertPoint \/ Output \/ Rebuild

SpecRebuild == InitHull /\ [][NextRebuild]_vars

NextDelaunay == Lift \/ Validate \/ BuildSimplex \/ InsertPoint \/ Output \/ BuildMesh

SpecDelaunay == InitDelaunay /\ [][NextDelaunay]_vars

NextRepeat == Validate \/ BuildSimplex \/ InsertPoint \/ Output \/ Repeat

SpecRepeat == InitHull /\ [][NextRepeat]_vars

NextReorder == Validate \/ BuildSimplex \/ InsertPoint \/ Output \/ Reorder

SpecReorder == InitHull /\ [][NextReorder]_vars

\* the primitives of the 3-D builder (d = 3) and of the N-D builder (d = 3, 4, 5)
InitPrimitives ==
    /\ d \in 3..5
    /\ mode \in (IF d = 3 THEN {"3d", "nd"} ELSE {"nd"})
    /\ in_vertices \in PrimInputs(d)
    /\ nVert = d + 1
    /\ seed = 0
    /\ other = NoOther
    /\ del_points = <<>>
    /\ pc = "CALL"
    /\ InitCall
    /\ maxFaces = CH_MAX_NUM_FACES
    /\ ~NDEBUG

NextPrimitives == PlaneThrough \/ Orientation

SpecPrimitives == InitPrimitives /\ [][NextPrimitives]_vars

\* a triangle in the plane
Triangle2 == << <<0, 0>>, <<12, 0>>, <<0, 12>> >>

\* two calls in two threads: a builder of the shipped debug build on five or
\* on three points, and convhull_nd_build with d = 2 on a triangle
InitConcurrent ==
    /\ InitCall
    /\ maxFaces = CH_MAX_NUM_FACES
    /\ ~NDEBUG
    /\ mode \in {"3d", "nd"}
    /\ d = 3
    /\ in_vertices \in {InteriorFive, SubSeq(InteriorFive, 1, 3)}
    /\ nVert = Len(in_vertices)
    /\ seed \in 0..MaxSeed
    /\ other = [in |-> Triangle2, d |-> 2, drawn |-> <<>>, start |-> seed]
    /\ del_points = <<>>
    /\ pc = "INIT"

NextConcurrent == Draw \/ DrawOther \/ ValidateDrawn \/ BuildSimplex \/ InsertPoint \/ Output

SpecConcurrent == InitConcurrent /\ [][NextConcurrent]_vars

\* a call of any of the three entry points
InitAny == InitHull \/ InitDelaunay

SpecAny == InitAny /\ [][NextDelaunay]_vars

\* ------------------------------------------------------------------------
\* Properties of the hull builders (under Spec)

\* a call has ended: normally, with the failure result or an exception, or in
\* undefined behaviour
ended == pc \in {"DONE", "FAILED", "UNDEFINED"}

\* a perturbation moves a point by less than two units
Epsilon == 2 * CH_NOISE_VAL

\* dot(normal, p) + offset > eps for the plane (c, dd) / norm_c
outsideBy(c, dd, p, dim, eps) ==
    LET v == Dot(c, p, dim) + dd
    IN  v > 0 /\ v * v > eps * eps * Dot(c, c, dim)

\* C1 (containment): when a call of a builder has succeeded, no point of the
\* caller's array lies farther than Epsilon on the outer side of the plane of
\* any facet of the hull.
C1_Containment ==
    pc = "DONE" =>
        \A k \in 1..nFaces : \A i \in 1..nVert :
            ~outsideBy(cf[k], df[k], in_vertices[i], d, Epsilon)

\* C2 (facet validity): every facet row that a successful build returns
\* consists of d pairwise different point indices, each in 0..nVert-1.
C2_FacetValidity ==
    pc = "DONE" =>
        /\ out_faces.ptr = "array"
        /\ nOut_faces = Len(out_faces.rows)
        /\ \A k \in 1..nOut_faces :
              /\ Len(out_faces.rows[k]) = d
              /\ \A a \in 1..d : out_faces.rows[k][a] \in 0..(nVert - 1)
              /\ \A a, b \in 1..d : a # b => out_faces.rows[k][a] # out_faces.rows[k][b]

\* a successful build whose hull has grown beyond the simplex
C2_Witness == pc = "DONE" /\ nOut_faces > d + 1 /\ ub = "none"

\* C3 (argument check): a call with fewer than d+1 points fails in INIT with
\* *out_faces NULL and a facet count of 0, in both builders.
C3_TooFewPointsFail ==
    (nVert < d + 1 /\ pc # "INIT") =>
        (pc = "FAILED" /\ result = "null" /\ out_faces = NULL /\ nOut_faces = 0)

\* the caller's points all share the value of one coordinate
inputFlat == \E j \in 1..d : \A a, b \in 1..nVert : in_vertices[a][j] = in_vertices[b][j]

\* the caller's output arguments hold no hull
noHullData ==
    /\ out_faces \in {UNSET, NULL}
    /\ nOut_faces \in {UNSET_COUNT, 0}
    /\ out_cf \in {UNSET, NULL}
    /\ out_df \in {UNSET, NULL}

C5_Ceiling ==
    /\ pc = "DONE" => (ERROR = 0 /\ nOut_faces <= maxFaces)
    /\ ERROR = 1 =>
          /\ faces = <<>> /\ cf = <<>> /\ df = <<>>
          /\ pc \in {"ITERATING", "FAILED"}
          /\ ~ENABLED InsertPoint
          /\ pc = "FAILED" =>
                /\ result = "null" /\ out_faces = NULL /\ nOut_faces = 0
                /\ mode # "3d" => (out_cf = NULL /\ out_df = NULL)

\* a build has failed on the ceiling
C5_Witness == ERROR = 1 /\ pc = "FAILED" /\ out_faces = NULL

\* C6 (termination of the retry loop): when the orientation of a new face
\* has run out of candidate witness points, the call has failed.
C6_RetryLoopEnds == ub \in {"retry_pp", "retry_points"} => pc = "FAILED"

\* C10 (minimal input): d+1 points that pass the span check give a build that
\* never enters the insertion loop and returns d+1 facets, facet k being all
\* points but k.
C10_MinimalInput ==
    (nVert = d + 1 /\ pc # "INIT" /\ \A j \in 1..d : span[j] >= SpanThreshold) =>
        /\ pc \in {"VALIDATED", "SIMPLEX_BUILT", "DONE"}
        /\ pleft = <<>>
        /\ pc = "DONE" =>
              /\ result = "ok"
              /\ nOut_faces = d + 1
              /\ \A k \in 1..(d + 1) : Range(out_faces.rows[k]) = (0..d) \ {k - 1}

\* a build of d+1 points has succeeded
C10_Witness == nVert = d + 1 /\ pc = "DONE" /\ nOut_faces = d + 1

\* ------------------------------------------------------------------------
\* Properties of the second call (under SpecRebuild)

\* the sets of points that the facet rows F group, ix giving the index in the
\* first call's array of each point that F can name
groupings(F, ix) == { {ix[F[k][a] + 1] : a \in 1..Len(F[k])} : k \in 1..Len(F) }

\* C7 (idempotence): the call on the points that the facets of a successful
\* build reference succeeds, and its facets group the same points.
C7_Idempotence ==
    (call = 2 /\ pc \in {"DONE", "FAILED", "UNDEFINED"}) =>
        /\ pc = "DONE"
        /\ groupings(out_faces.rows, V) = { Range(H[k]) : k \in 1..Len(H) }

\* ------------------------------------------------------------------------
\* Properties of delaunay_nd_mesh with nd = 2 (under SpecDelaunay)

\* twice the signed area of the triangle a, b, c
orient2d(a, b, c) == (b[1] - a[1]) * (c[2] - a[2]) - (b[2] - a[2]) * (c[1] - a[1])

\* p lies strictly inside the circle through a, b, c (not on one line)
inCircle(a, b, c, p) ==
    LET row(q) == << q[1] - p[1], q[2] - p[2],
                     (q[1] - p[1]) * (q[1] - p[1]) + (q[2] - p[2]) * (q[2] - p[2]) >>
    IN  det_NxN(row(a) \o row(b) \o row(c), 3) * orient2d(a, b, c) > 0

\* C8 (empty circumsphere): every returned simplex has a circumscribed
\* circle (its three points are not on one line), and no point of the
\* caller's array lies strictly inside that circle.
C8_EmptyCircumsphere ==
    (pc = "MESH_DONE" /\ nMesh > 0) =>
        \A k \in 1..nMesh :
            LET a == del_points[Mesh.rows[k][1] + 1]
                b == del_points[Mesh.rows[k][2] + 1]
                c == del_points[Mesh.rows[k][3] + 1]
            IN  /\ orient2d(a, b, c) # 0
                /\ \A i \in 1..nVert : ~inCircle(a, b, c, del_points[i])

\* C9 (lower-hull filter): the facets of the lifted hull that are visible
\* from the viewpoint are exactly those whose normal has a negative w.
C9_LowerHullFilter ==
    (pc = "MESH_DONE" /\ nOut_faces > 0) =>
        \A k \in 1..nOut_faces :
            visibleFrom(out_cf.rows[k], out_df.rows[k],
                        viewpoint(in_vertices, nVert, d - 1), d - 1)
                <=> out_cf.rows[k][d] < 0

\* ------------------------------------------------------------------------
\* The cube (under Spec)

\* the points of row f of a face table are on one face of the cube
onCubeFace(in, f) ==
    \E j \in 1..3 : \E v \in {0, 12} : \A k \in 1..3 : in[f[k] + 1][j] = v

\* the caller's points as rows of A: the three coordinates and a 1
rowsOfA(in) == [i \in 1..Len(in) |-> in[i] \o <<1>>]

\* C11 (cube): a call of the 3-D builder on the 8 vertices of a cube, in any
\* order and also with the first four on one face, compiled with the shipped
\* facet ceiling, succeeds and returns exactly 12 facets, each on a face of
\* the cube, two per face, each with all 8 vertices on its non-positive side.
C11_Cube ==
    (mode = "3d" /\ Range(in_vertices) = Range(CubeSpread)
        /\ maxFaces = CH_MAX_NUM_FACES /\ ended) =>
        /\ pc = "DONE"
        /\ nOut_faces = 12
        /\ \A k \in 1..nOut_faces :
            /\ onCubeFace(in_vertices, out_faces.rows[k])
            /\ \A w \in 0..(nVert - 1) :
                   det_4x4(matrixA(rowsOfA(in_vertices), out_faces.rows[k], w)) >= 0
        /\ \A j \in 1..3 : \A v \in {0, 12} :
               Cardinality({k \in 1..nOut_faces :
                   \A i \in 1..3 : in_vertices[out_faces.rows[k][i] + 1][j] = v}) = 2

\* ------------------------------------------------------------------------
\* The two builders at d = 3 (under Spec)

\* C13 (the 3-D builder refines the N-D builder at d = 3): the two builders
\* are the same text but for the test of the point count, the plane routine
\* and the plane tables that only the N-D builder returns.  In every state of
\* a call of the 3-D builder, what the N-D builder computes from that state
\* is what the 3-D builder computes: the same verdict on the point count, the
\* same oriented simplex, the same planes of the facets that the next
\* insertion adds; so both go through the same hull states to the same end.
C13_Refines ==
    mode = "3d" =>
        /\ pc = "INIT" =>
               (tooFewPoints("3d", nVert, d) <=> tooFewPoints("nd", nVert, d))
        /\ pc = "VALIDATED" =>
               /\ nVert >= d + 1
               /\ \A k \in 0..d : orientedSimplex("3d", d, points, k)
                                      = orientedSimplex("nd", d, points, k)
        /\ (pc \in {"SIMPLEX_BUILT", "ITERATING"} /\ ERROR = 0 /\ pleft # <<>>) =>
               LET vflags == visible_ind(pleft[1])
                   t == keptAndNew(pleft[1], vflags)
               IN  (\E j \in 1..nFaces : vflags[j]) =>
                       \A k \in (t.start + 1)..Len(t.faces) :
                           planeOf("3d", d, points, t.faces[k])
                               = planeOf("nd", d, points, t.faces[k])

\* ------------------------------------------------------------------------
\* The caller's array (under SpecAny)

\* the array the caller has passed: in_vertices of a builder, points of the
\* mesher (whose in_vertices is the lifted array it passes to the builder)
callerArray == IF mode = "delaunay" THEN del_points ELSE in_vertices

\* the index table the entry point returns
returned == IF mode = "delaunay" THEN Mesh ELSE out_faces

\* C14 (the input is never written): no step of a call changes the caller's
\* array; working point i is input point i moved by at most CH_NOISE_VAL
\* along each axis (twice in the mesher, which perturbs before it lifts), and
\* every index of a returned table is a position of the caller's array.
C14_InputNeverWritten ==
    /\ [][callerArray' = callerArray]_vars
    /\ [](points # <<>> =>
            /\ Len(points) = Len(callerArray)
            /\ \A i \in 1..Len(callerArray) : \A j \in 1..Len(callerArray[i]) :
                   /\ points[i][j] >= callerArray[i][j]
                   /\ points[i][j] <= callerArray[i][j]
                          + (IF mode = "delaunay" THEN 2 ELSE 1) * CH_NOISE_VAL)
    /\ [](returned.ptr = "array" =>
            \A k \in 1..Len(returned.rows) : \A j \in 1..Len(returned.rows[k]) :
                returned.rows[k][j] \in 0..(Len(callerArray) - 1))

\* a call that has perturbed its working copy and has returned a hull
C14_Witness ==
    /\ mode # "delaunay"
    /\ pc = "DONE"
    /\ returned.ptr = "array"
    /\ \E i \in 1..nVert : points[i] # callerArray[i] \o <<1>>

\* ------------------------------------------------------------------------
\* Two calls in a row on the same array (under SpecRepeat)

\* C15 (no state across calls): the second of two calls of a builder on the
\* same array works on the same working points as the first (and so goes
\* through the same hull states to the same result).
C15_NoStateAcrossCalls ==
    (call = 2 /\ points # <<>>) => points = H.points

\* ------------------------------------------------------------------------
\* Two calls in two threads (under SpecConcurrent)

\* C16 (concurrent calls share nothing): in every interleaving, each of two
\* concurrent calls works on the working points it has when it runs alone
\* from the same state of the program (and so returns the same result).
C16_ConcurrentCallsIsolated ==
    /\ points # <<>> => points = perturb(in_vertices, nVert, d, other.start)
    /\ Len(other.drawn) = Len(other.in) * other.d =>
           addNoise(other.in, Len(other.in), other.d, other.drawn)
               = perturb(other.in, Len(other.in), other.d, other.start)

\* ------------------------------------------------------------------------
\* The initial simplex (under Spec)

\* the points 0..dim without point k, ascending
allBut(dim, k) == SelectSeq([x \in 1..(dim + 1) |-> x - 1], LAMBDA x : x # k)

\* dot(c, pt) + dd <= 0.0, which is false when the plane is NaN
notAbove(c, dd, pt, dim) == ~IsNaN(c) /\ Dot(c, pt, dim) + dd <= 0

\* the facet tables hold the initial simplex and nothing else
simplexBuilt == pc = "SIMPLEX_BUILT"

\* C17 (initial simplex): the simplex is made of the points 0..d; facet k is
\* those points without point k, in ascending order with the last two
\* swapped, and its plane negated, exactly when the signed volume of (facet
\* k, point k) is negative; after that point k is not above the plane of
\* facet k.
C17_InitialSimplex ==
    simplexBuilt =>
        /\ nFaces = d + 1
        /\ \A k \in 0..d :
            LET f == allBut(d, k)
                pl == planeOf(mode, d, points, f)
                v == signedVolume(mode, d, points, f, k)
            IN  /\ faces[k + 1] = IF v < 0 THEN flipFace(f) ELSE f
                /\ cf[k + 1] = IF v < 0 THEN Neg(pl.c) ELSE pl.c
                /\ df[k + 1] = IF v < 0 THEN 0 - pl.d ELSE pl.d
                /\ notAbove(cf[k + 1], df[k + 1], points[k + 1], d)

\* ------------------------------------------------------------------------
\* One insertion (under Spec)

\* a step that pops the first point of the queue
popStep == pc \in {"SIMPLEX_BUILT", "ITERATING"} /\ pleft # <<>> /\ pleft' = Tail(pleft)

\* points_cf[j] + df[j] of facet j for working point i (0-based)
height(j, i) == Dot(cf[j], points[i + 1], d) + df[j]

\* facet j has a plane and point i is strictly above it
above(j, i) == ~IsNaN(cf[j]) /\ height(j, i) > 0

\* C18 (visibility is strict, an interior point changes nothing): in the
\* step that pops point i, the facets marked visible are those with
\* dot(normal, i) + offset > 0, a value of exactly 0 not being visible; when
\* there is none, the step leaves the facet rows, the normals, the offsets
\* and so the facet count as they are and only shortens the queue; when there
\* is one, the facet rows change.
C18_StrictVisibility ==
    [][popStep =>
        LET i == pleft[1]
        IN  /\ \A j \in 1..nFaces : visible_ind(i)[j] <=> above(j, i)
            /\ (\A j \in 1..nFaces : ~above(j, i)) =>
                   /\ faces' = faces
                   /\ cf' = cf
                   /\ df' = df
                   /\ ERROR' = ERROR
                   /\ pc' = "ITERATING"
                   /\ UNCHANGED <<points, in_vertices, outVars>>
            /\ (\E j \in 1..nFaces : above(j, i)) => faces' # faces
    ]_vars

\* the fifth of five points has been popped; it lies in the plane of a facet
\* of the simplex and above none, and the simplex is still the hull
C18_Witness ==
    /\ pc = "ITERATING"
    /\ nVert = d + 2
    /\ pleft = <<>>
    /\ ERROR = 0
    /\ nFaces = d + 1
    /\ \A k \in 1..nFaces : Range(faces[k]) \subseteq 0..d
    /\ \E j \in 1..nFaces : ~IsNaN(cf[j]) /\ height(j, d + 1) = 0
    /\ \A j \in 1..nFaces : ~above(j, d + 1)

\* the next step pops a point
insertionPending == pc \in {"SIMPLEX_BUILT", "ITERATING"} /\ ERROR = 0 /\ pleft # <<>>

\* the vertices that facets a and b (positions in the facet table) share
shared(a, b) == Range(faces[a]) \cap Range(faces[b])

\* the pairs (visible facet, non-visible facet) with exactly d-1 shared
\* vertices, for the popped point i
ridgePairs(i) ==
    {pr \in (1..nFaces) \X (1..nFaces) :
        /\ above(pr[1], i)
        /\ ~above(pr[2], i)
        /\ Cardinality(shared(pr[1], pr[2])) = d - 1}

\* the horizon the insertion of point i records
horizonFor(i) ==
    LET vflags == visible_ind(i)
    IN  horizonOf(positions(vflags, TRUE, 1), positions(vflags, FALSE, 1), 1, 1)

\* C19 (horizon extraction): the horizon recorded during the insertion of
\* point i has one entry for each pair (visible facet, non-visible facet)
\* that shares exactly d-1 vertices and no other entry; an entry is d-1
\* different indices, the shared vertices of its pair.
C19_Horizon ==
    insertionPending =>
        LET i == pleft[1]
            hz == horizonFor(i)
        IN  /\ Len(hz) = Cardinality(ridgePairs(i))
            /\ \A k \in 1..Len(hz) :
                   /\ Len(hz[k]) = d - 1
                   /\ Cardinality(Range(hz[k])) = d - 1
            /\ \A pr \in ridgePairs(i) :
                   Cardinality({k \in 1..Len(hz) : Range(hz[k]) = shared(pr[1], pr[2])})
                     = Cardinality({qr \in ridgePairs(i) :
                                       shared(qr[1], qr[2]) = shared(pr[1], pr[2])})

\* an insertion into a hull of more than d+1 facets: some visible and
\* non-visible facets share a ridge, others share less
C19_Witness ==
    /\ insertionPending
    /\ nFaces > d + 1
    /\ ridgePairs(pleft[1]) # {}
    /\ \E a, b \in 1..nFaces :
           /\ above(a, pleft[1])
           /\ ~above(b, pleft[1])
           /\ Cardinality(shared(a, b)) < d - 1

\* the positions of the facets that are not visible from point i, ascending
keptRows(i) == positions(visible_ind(i), FALSE, 1)

\* the facet (c, dd) has a plane and working point i is strictly above it
aboveplane(c, dd, i) == ~IsNaN(c) /\ Dot(c, points[i + 1], d) + dd > 0

\* after the step that has popped point i: (a) no facet of the table is
\* visible from i, (b) the table starts with the facets that were not
\* visible, in their order, rows and planes unchanged, (c) and ends with one
\* facet for each horizon entry, in order, made of the entry's d-1 vertices
\* and i; so the count is the old one - |V| + |H|
updated(i) ==
    LET kept == keptRows(i)
        hz == horizonFor(i)
    IN  /\ Len(faces') = nFaces - (nFaces - Len(kept)) + Len(hz)
        /\ Len(cf') = Len(faces')
        /\ Len(df') = Len(faces')
        /\ \A k \in 1..Len(faces') : ~aboveplane(cf'[k], df'[k], i)
        /\ \A k \in 1..Len(kept) :
               /\ faces'[k] = faces[kept[k]]
               /\ cf'[k] = cf[kept[k]]
               /\ df'[k] = df[kept[k]]
        /\ \A j \in 1..Len(hz) :
               /\ Len(faces'[Len(kept) + j]) = d
               /\ Range(faces'[Len(kept) + j]) = Range(hz[j]) \cup {i}

\* a step that pops a point from which some facet is visible
updateStep == popStep /\ \E j \in 1..nFaces : above(j, pleft[1])

\* C20 (hull update), as stated: after the insertion of a point i that sees
\* a non-empty set V of facets with horizon H, no facet is visible from i,
\* the non-visible facets are kept in order and unchanged, and |H| facets of
\* a ridge and i each are appended.
C20_HullUpdate == [][updateStep => updated(pleft[1])]_vars

\* C20, amended: the same when the updated table has no more than
\* CH_MAX_NUM_FACES facets; when it has more, the insertion empties the
\* table and raises the failure flag instead.
C20_HullUpdateBelowCeiling ==
    [][updateStep =>
        LET i == pleft[1]
            n == Len(keptRows(i)) + Len(horizonFor(i))
        IN  IF n > maxFaces
            THEN ERROR' = 1 /\ faces' = <<>> /\ cf' = <<>> /\ df' = <<>>
            ELSE ERROR' = 0 /\ updated(i)
    ]_vars

\* an insertion has replaced visible facets of a hull of more than d+1
\* facets and has kept others
C20_Witness ==
    /\ pc = "ITERATING"
    /\ ERROR = 0
    /\ ub = "none"
    /\ nFaces > d + 3
    /\ nVert - Len(pleft) > d + 2

\* ------------------------------------------------------------------------
\* The orientation of the new facets (under Spec)

\* the point indices that the rows of the facet table F reference
hullPoints(F) == UNION {Range(F[k]) : k \in 1..Len(F)}

\* a step that pops a point, replaces the facets visible from it and does
\* not exceed the facet ceiling
orientStep ==
    /\ updateStep
    /\ ERROR = 0
    /\ ~ceilingExceeded(Len(keptAndNew(pleft[1], visible_ind(pleft[1])).faces), maxFaces)

\* row k of the table t has been oriented against the witness w, which gave
\* the signed volume v # 0
orientedAgainst(t, k, w, v) ==
    /\ faces'[k] = IF v < 0 THEN flipFace(t.faces[k]) ELSE t.faces[k]
    /\ cf'[k] = IF v < 0 THEN Neg(t.cf[k]) ELSE t.cf[k]
    /\ df'[k] = IF v < 0 THEN 0 - t.df[k] ELSE t.df[k]
    /\ signedVolume(mode, d, points, faces'[k], w) > 0

\* C21 (orientation repair): in the step that adds new facets, each new
\* facet is tested against a witness that is a point of the hull and not a
\* vertex of the facet, the first candidate whose signed volume is not zero;
\* a negative volume swaps the last two indices and negates the plane, a
\* positive one leaves the facet as it is; the volume of the resulting facet
\* against that witness is positive, and so the step does not fail.
C21_OrientationRepair ==
    [][orientStep =>
        LET i == pleft[1]
            t == keptAndNew(i, visible_ind(i))
        IN  /\ pc' = "ITERATING"
            /\ Len(faces') = Len(t.faces)
            /\ \A k \in (t.start + 1)..Len(t.faces) :
                   LET pp == ppOf(t.faces[k], Len(t.faces))
                       r == retryLoop(t.faces[k], pp, 0)
                   IN  /\ r.oob = "none"
                       /\ pp[r.index] \in hullPoints(t.faces) \ Range(t.faces[k])
                       /\ orientedAgainst(t, k, pp[r.index], r.detA)
    ]_vars

\* ------------------------------------------------------------------------
\* The order of the candidate queue (under SpecReorder)

\* the planes (c1, d1) and (c2, d2) are one plane with one outer side
samePlane(c1, d1, c2, d2) ==
    /\ \A a, b \in 1..d : c1[a] * c2[b] = c1[b] * c2[a]
    /\ \A a \in 1..d : c1[a] * d2 = d1 * c2[a]
    /\ Dot(c1, c2, d) > 0

\* the points that the facets of the table (F, C, D) in the plane of its
\* facet k reference: the vertices of one flat piece of the boundary
pieceOf(F, C, D, k) ==
    UNION {Range(F[j]) : j \in {j \in 1..Len(F) : samePlane(C[j], D[j], C[k], D[k])}}

\* every flat piece of the boundary of table 1 is a flat piece of table 2
piecesWithin(F1, C1, D1, F2, C2, D2) ==
    \A k \in 1..Len(F1) : \E j \in 1..Len(F2) :
        /\ samePlane(C1[k], D1[k], C2[j], D2[j])
        /\ pieceOf(F1, C1, D1, k) = pieceOf(F2, C2, D2, j)

\* C22 (the order of the queue does not matter): the main loop run on the
\* same working points and the same initial simplex with the queue in any
\* order ends as the run in the order of the code has ended; when it
\* succeeds the hull has the same vertices and the same boundary, and no
\* working point is above the plane of a facet.
C22_OrderIndependence ==
    (call = 2 /\ ended) =>
        /\ pc = H.pc
        /\ pc = "DONE" =>
              /\ hullPoints(faces) = hullPoints(H.faces)
              /\ piecesWithin(faces, cf, df, H.faces, H.cf, H.df)
              /\ piecesWithin(H.faces, H.cf, H.df, faces, cf, df)
              /\ \A k \in 1..nFaces : \A i \in 0..(nVert - 1) : notAbove(cf[k], df[k], points[i + 1], d)

\* ------------------------------------------------------------------------
\* The candidate queue (under Spec)

\* the queue q is in the order of non-increasing distance from the centroid
\* of the points d+1..nVert-1
byDistance(q) ==
    \A k \in 1..(Len(q) - 1) :
        reldist(points, span, nVert, d, q[k]) >= reldist(points, span, nVert, d, q[k + 1])

\* C23 (queue discipline): when the simplex has been built the queue holds
\* the indices d+1..nVert-1, each once, by non-increasing distance from
\* their centroid; a step of the loop removes the head and keeps the rest in
\* order, and no other step touches the queue; so the loop makes nVert-d-1
\* iterations, and when it has stopped with points left the call is FAILED.
C23_QueueDiscipline ==
    /\ [](simplexBuilt =>
            /\ Len(pleft) = nVert - d - 1
            /\ Range(pleft) = (d + 1)..(nVert - 1)
            /\ byDistance(pleft))
    /\ [][IF pc = "VALIDATED" THEN TRUE
          ELSE IF popStep THEN pleft' = Tail(pleft)
          ELSE pleft' = pleft]_vars
    /\ []((ended /\ pleft # <<>>) => pc = "FAILED")

\* ------------------------------------------------------------------------
\* The plane routines and the determinants (under SpecPrimitives)

\* the matrix M, a sequence of rows, without row r and column c
Minor(M, r, c) ==
    [a \in 1..(Len(M) - 1) |->
        [b \in 1..(Len(M) - 1) |->
            M[IF a < r THEN a ELSE a + 1][IF b < c THEN b ELSE b + 1]]]

\* the determinant of the square matrix M, expanded along its first column
RECURSIVE Determinant(_)
Determinant(M) ==
    IF Len(M) = 0 THEN 1
    ELSE SumSeq([r \in 1..Len(M) |->
            (IF r % 2 = 1 THEN 1 ELSE 0 - 1) * M[r][1] * Determinant(Minor(M, r, 1))])

\* the differences of consecutive points of P, without column i
differences(P, i) ==
    [a \in 1..(Len(P) - 1) |->
        [b \in 1..(Len(P) - 1) |->
            P[a + 1][IF b < i THEN b ELSE b + 1] - P[a][IF b < i THEN b ELSE b + 1]]]

\* the d points that the plane is put through
planePoints == SubSeq(in_vertices, 1, d)

\* the points of P are affinely independent
affinelyIndependent(P) == \E i \in 1..Len(P) : Determinant(differences(P, i)) # 0

\* the plane routine has returned
planeReturned == pc \in {"PLANE", "ORIENTED"}

\* C24 (plane through d points): for d affinely independent points in
\* dimension d = 3, 4, 5, component i (from 0) of the normal before its
\* division by the norm is (-1)^i times the determinant of the consecutive
\* differences without column i, and every one of the d points satisfies
\* dot(normal, p) + offset = 0.
C24_PlaneThroughPoints ==
    (planeReturned /\ affinelyIndependent(planePoints)) =>
        /\ \A i \in 1..d :
               cf[1][i] = (IF i % 2 = 1 THEN 1 ELSE 0 - 1)
                              * Determinant(differences(planePoints, i))
        /\ \A k \in 1..d : Dot(cf[1], planePoints[k], d) + df[1] = 0

\* a plane in dimension 5 none of whose coefficients is zero
C24_Witness ==
    /\ planeReturned
    /\ d = 5
    /\ affinelyIndependent(planePoints)
    /\ \A i \in 1..d : cf[1][i] # 0

\* the sign of x
sgn(x) == IF x > 0 THEN 1 ELSE IF x < 0 THEN 0 - 1 ELSE 0

\* the 4 x 4 matrices that the primitives take the determinant of: A when
\* d = 3, the cofactor matrices pdiff_s of plane_nd when Nd = 5
matrices4x4 ==
    IF d = 3 THEN {matrixA(points, faces[1], d)}
    ELSE IF d = 5 THEN {pdiff_s(5, p_s(points, d, faces[1]), i - 1) : i \in 1..5}
    ELSE {}

\* dot(normal, q) + offset for the plane of the face and the witness q
witnessHeight == Dot(cf[1], in_vertices[d + 1], d) + df[1]

\* C30 (signed volume): the closed form det_4x4 of a 4 x 4 matrix is its
\* cofactor expansion det_NxN(m, 4); and in every dimension d = 3, 4, 5 the
\* signed volume of (p_1..p_d, q) and dot(normal, q) + offset for the plane
\* through p_1..p_d have opposite signs (both zero together), so that the
\* orientation test and the visibility test agree.
C30_SignedVolumeConsistency ==
    pc = "ORIENTED" =>
        /\ \A m \in matrices4x4 : det_4x4(m) = det_NxN(m, 4)
        /\ sgn(detOfA) = 0 - sgn(witnessHeight)

\* in dimension 5: a witness below the plane of the face, a positive volume,
\* and a cofactor matrix of the plane whose determinant is not zero
C30_Witness ==
    /\ pc = "ORIENTED"
    /\ d = 5
    /\ detOfA > 0
    /\ witnessHeight < 0
    /\ \E m \in matrices4x4 : det_4x4(m) # 0

\* ------------------------------------------------------------------------
\* The facet table (under Spec)

\* row k of the planes (C, D) is the plane that the plane routine gives for
\* row k of the facets F
aligned(F, C, D, k) ==
    LET pl == planeOf(mode, d, points, F[k])
    IN  C[k] = pl.c /\ D[k] = pl.d

\* dot(c, v) + dd = 0 for working point v, which is false for a NaN plane
onPlane(c, dd, v) == ~IsNaN(c) /\ Dot(c, points[v + 1], d) + dd = 0

\* the tables (F, C, D) have one plane per facet, the plane of that facet,
\* and the vertices of the facet are on it
tableAligned(F, C, D) ==
    /\ Len(C) = Len(F)
    /\ Len(D) = Len(F)
    /\ \A k \in 1..Len(F) :
           /\ aligned(F, C, D, k)
           /\ \A a \in 1..d : onPlane(C[k], D[k], F[k][a])

\* C25 (facet table alignment): whenever facets exist, row k of the normals
\* and entry k of the offsets are the plane through the vertices of facet
\* row k, and each of these vertices satisfies dot(normal_k, v) + offset_k
\* = 0; the same holds for the arrays that the N-D builder returns.
C25_FacetTableAlignment ==
    /\ tableAligned(faces, cf, df)
    /\ (mode = "nd" /\ pc = "DONE") =>
           /\ out_cf.ptr = "array"
           /\ out_df.ptr = "array"
           /\ tableAligned(out_faces.rows, out_cf.rows, out_df.rows)

\* ------------------------------------------------------------------------
\* The surface (under Spec)

\* the facet table after the simplex or after an insertion that has run to
\* its end
hullStanding == pc \in {"SIMPLEX_BUILT", "ITERATING", "DONE"} /\ ERROR = 0

\* the ridges of facet row f: its vertices without one
ridgesOf(f) == {Range(f) \ {f[a]} : a \in 1..Len(f)}

\* the facets (positions in the table) that ridge r belongs to
facetsAt(r) == {j \in 1..nFaces : r \subseteq Range(faces[j])}

\* C26 (closed surface): after the initial simplex and after every insertion
\* every ridge of a facet belongs to exactly two facets; in 3-D the number of
\* facets is then 2V - 4 for V the number of point indices the facets
\* reference.
C26_ClosedSurface ==
    hullStanding =>
        /\ \A k \in 1..nFaces : \A r \in ridgesOf(faces[k]) :
               Cardinality(facetsAt(r)) = 2
        /\ d = 3 => nFaces = 2 * Cardinality(hullPoints(faces)) - 4

\* ------------------------------------------------------------------------
\* The reads of the orientation step (under Spec)

\* the reads of a witness that are out of bounds: pp[index] with index not
\* below the length of pp, or a row pp[index] that is not below nVert, in
\* the retry loop or in the re-check after a flip
witnessReadsOutOfBounds == {"retry_pp", "retry_points", "recheck_pp", "recheck_points"}

\* C27 (witness selection stays in bounds): no call reads a candidate
\* witness at a position beyond the candidate list, nor a candidate that is
\* not the index of a working point.
C27_WitnessInBounds == ub \notin witnessReadsOutOfBounds

\* ------------------------------------------------------------------------
\* The size of the hull (under Spec)

\* C28 (the hull never vanishes): after the simplex and after every
\* insertion that has not raised the failure flag the table has at least
\* d+1 facets; when a point replaces the facets it sees, some facet is not
\* visible from it; a successful build returns an array of at least d+1
\* facets.
C28_HullNeverVanishes ==
    /\ [](hullStanding => nFaces >= d + 1)
    /\ [][updateStep => keptRows(pleft[1]) # <<>>]_vars
    /\ [](pc = "DONE" => (out_faces.ptr = "array" /\ nOut_faces >= d + 1))

\* ------------------------------------------------------------------------
\* delaunay_nd_mesh when the hull builder returns nothing (under SpecDelaunay)

\* convhull_nd_build has returned NULL arrays and 0 facets, and the rest of
\* delaunay_nd_mesh has run
afterHullFailure ==
    /\ mode = "delaunay"
    /\ out_faces = NULL
    /\ nOut_faces = 0
    /\ ~(pc = "FAILED" /\ result = "null")

\* C29 (Delaunay on hull failure): when the inner hull build has returned
\* no facets, delaunay_nd_mesh returns with the simplex count 0, the caller's
\* Mesh pointer not written and no read outside an array; so nd+1 points in
\* general position give 0 simplices.
C29_DelaunayOnHullFailure ==
    afterHullFailure =>
        /\ pc = "MESH_DONE"
        /\ nMesh = 0
        /\ Mesh = UNSET
        /\ ub = "none"

====
